---- MODULE Spec2Model ----
(***************************************************************************)
(* Model of the Model Context Protocol pipeline for FreeCAD:                *)
(*   intent-parser      (needsClarification, generateClarificationQuestions,*)
(*                       parseDesignIntent, generateId)                     *)
(*   design-generator   (generateFreeCADCode, validateScriptSafety)         *)
(*   execution-engine   (executeScript)                                     *)
(*   feedback-collector (generateUserFeedback, formatErrorMessage)          *)
(*   index              (processDesignIntent)                               *)
(* Texts are TLA+ strings handled character by character (Len, SubSeq, \o), *)
(* optional fields are sequences of length 0 (absent) or 1 (present).       *)
(***************************************************************************)
EXTENDS Integers, Sequences, FiniteSets, TLC

(***************************************************************************)
(* Bounds of the model.                                                     *)
(***************************************************************************)
\* longest prompt, in fragments of PromptFragments
MaxFrags == 3
\* number of concurrent processDesignIntent requests in SpecConc
NumReqs == 2
\* longest text given to a directly called function, in fragments
MaxParts == 2
\* longest primitive / operation list of a directly compiled design
MaxItems == 2

(***************************************************************************)
(* JavaScript string primitives.                                            *)
(***************************************************************************)
None == <<>>
Some(x) == <<x>>

CharAt(s, i) == SubSeq(s, i, i)

\* String.prototype.includes
Includes(s, p) ==
  \E i \in 1..(Len(s) - Len(p) + 1) : SubSeq(s, i, i + Len(p) - 1) = p

\* s.startsWith(p, i) for a 1-based position i
MatchesAt(s, i, p) ==
  /\ i + Len(p) - 1 <= Len(s)
  /\ SubSeq(s, i, i + Len(p) - 1) = p

UpperChars == <<"A","B","C","D","E","F","G","H","I","J","K","L","M",
                "N","O","P","Q","R","S","T","U","V","W","X","Y","Z">>
LowerChars == <<"a","b","c","d","e","f","g","h","i","j","k","l","m",
                "n","o","p","q","r","s","t","u","v","w","x","y","z">>
DigitChars == <<"0","1","2","3","4","5","6","7","8","9">>

DigitSet == {DigitChars[k] : k \in 1..10}
UpperSet == {UpperChars[k] : k \in 1..26}
LowerSet == {LowerChars[k] : k \in 1..26}
AlnumSet == DigitSet \cup UpperSet \cup LowerSet
\* the lower-case letter of each upper-case letter
LowerOf == [c \in UpperSet |-> LowerChars[CHOOSE k \in 1..26 : UpperChars[k] = c]]
UpperOf == [c \in LowerSet |-> UpperChars[CHOOSE k \in 1..26 : LowerChars[k] = c]]

IsDigit(c) == c \in DigitSet
IsAlnum(c) == c \in AlnumSet
\* the characters the regular expression class \s matches
IsSpace(c) == c \in {" ", "\t", "\n", "\r", "\f"}

LowerChar(c) == IF c \in UpperSet THEN LowerOf[c] ELSE c

RECURSIVE LowerRange(_, _, _)
\* s[lo..hi] in lower case (halving keeps the recursion shallow)
LowerRange(s, lo, hi) ==
  IF lo > hi THEN ""
  ELSE IF lo = hi THEN LowerChar(CharAt(s, lo))
  ELSE LET mid == (lo + hi) \div 2
       IN LowerRange(s, lo, mid) \o LowerRange(s, mid + 1, hi)

\* String.prototype.toLowerCase
ToLowerCase(s) == LowerRange(s, 1, Len(s))

SanitizeChar(c) == IF IsAlnum(c) THEN c ELSE "_"

RECURSIVE SanitizeRange(_, _, _)
\* s[lo..hi] with every character outside [a-zA-Z0-9] replaced by '_'
SanitizeRange(s, lo, hi) ==
  IF lo > hi THEN ""
  ELSE IF lo = hi THEN SanitizeChar(CharAt(s, lo))
  ELSE LET mid == (lo + hi) \div 2
       IN SanitizeRange(s, lo, mid) \o SanitizeRange(s, mid + 1, hi)

\* name.replace(/[^a-zA-Z0-9]/g, '_')
SanitizeName(s) == SanitizeRange(s, 1, Len(s))

\* type.charAt(0).toUpperCase() + type.slice(1)
Capitalize(s) ==
  IF Len(s) = 0 THEN ""
  ELSE LET c == CharAt(s, 1)
       IN (IF c \in LowerSet THEN UpperOf[c] ELSE c) \o SubSeq(s, 2, Len(s))

\* Array.prototype.join
RECURSIVE Join(_, _)
Join(lines, sep) ==
  IF Len(lines) = 0 THEN ""
  ELSE IF Len(lines) = 1 THEN lines[1]
  ELSE lines[1] \o sep \o Join(Tail(lines), sep)

RECURSIVE Flatten(_)
Flatten(seqs) ==
  IF Len(seqs) = 0 THEN <<>> ELSE Head(seqs) \o Flatten(Tail(seqs))

(***************************************************************************)
(* JavaScript numbers, as far as the pipeline produces them: a non-negative *)
(* integer or a non-negative integer plus one half (size / 2).              *)
(***************************************************************************)
Whole(n) == [n |-> n, half |-> FALSE]
\* size / 2 computed as an integer division
HalfOfFloored(n) == [n |-> n \div 2, half |-> FALSE]
HalfOf(n) == [n |-> n \div 2, half |-> n % 2 = 1]

RECURSIVE IntToString(_)
IntToString(n) ==
  IF n < 10 THEN DigitChars[n + 1]
  ELSE IntToString(n \div 10) \o DigitChars[(n % 10) + 1]

\* the text a template literal gives for a number
NumberToString(x) == IntToString(x.n) \o (IF x.half THEN ".5" ELSE "")

DigitValue(c) == (CHOOSE k \in 1..10 : DigitChars[k] = c) - 1

RECURSIVE ParseDigits(_, _)
\* parseInt(text, 10) of a run of digits
ParseDigits(s, acc) ==
  IF Len(s) = 0 THEN acc
  ELSE ParseDigits(SubSeq(s, 2, Len(s)), 10 * acc + DigitValue(CharAt(s, 1)))

(***************************************************************************)
(* intent-parser: the clarification gate.                                   *)
(***************************************************************************)
shapeKeywords == <<"cube", "box", "sphere", "cylinder", "cone", "torus">>

\* shapeKeywords.some(keyword => prompt.includes(keyword))
HasShapeKeyword(prompt) ==
  \E k \in 1..Len(shapeKeywords) : Includes(prompt, shapeKeywords[k])

\* /\d+/.test(prompt)
HasDimensions(prompt) == \E i \in 1..Len(prompt) : IsDigit(CharAt(prompt, i))

\* the shortest prompt the gate lets through
MinPromptLength == 5

needsClarification(intentPrompt) ==
  LET prompt == ToLowerCase(intentPrompt)
  IN IF Len(prompt) < MinPromptLength THEN TRUE
     ELSE IF ~HasShapeKeyword(prompt) THEN TRUE
     ELSE ~HasDimensions(prompt)

ShapeQuestion == "What shape would you like to create?"
DimensionQuestion == "What dimensions should the shape have?"

\* the second test chained with else: at most one question
generateClarificationQuestionsElseIf(intentPrompt) ==
  LET prompt == ToLowerCase(intentPrompt)
  IN IF ~HasShapeKeyword(prompt) THEN <<ShapeQuestion>>
     ELSE IF ~HasDimensions(prompt) THEN <<DimensionQuestion>>
     ELSE <<>>

generateClarificationQuestions(intentPrompt) ==
  LET prompt == ToLowerCase(intentPrompt)
  IN (IF ~HasShapeKeyword(prompt) THEN <<ShapeQuestion>> ELSE <<>>)
     \o (IF ~HasDimensions(prompt) THEN <<DimensionQuestion>> ELSE <<>>)

(***************************************************************************)
(* intent-parser: parseDesignIntent.                                        *)
(***************************************************************************)
\* the alternatives of the unit group, in the order the expression tries them
UnitTokens == <<"mm", "cm", "m", "inch", "in">>

RECURSIVE SkipDigits(_, _)
\* \d+ from position i: the first position >= i that holds no digit
SkipDigits(s, i) ==
  IF i <= Len(s) /\ IsDigit(CharAt(s, i)) THEN SkipDigits(s, i + 1) ELSE i

RECURSIVE SkipSpaces(_, _)
\* \s* from position i: the first position >= i that holds no white space
SkipSpaces(s, i) ==
  IF i <= Len(s) /\ IsSpace(CharAt(s, i)) THEN SkipSpaces(s, i + 1) ELSE i

\* prompt.match(/(\d+)(?:\s*)(mm|cm|m|inch|in)?/): None, or the two groups
DimensionMatch(prompt) ==
  IF ~HasDimensions(prompt) THEN None
  ELSE LET start == CHOOSE i \in 1..Len(prompt) :
                      /\ IsDigit(CharAt(prompt, i))
                      /\ \A j \in 1..(i - 1) : ~IsDigit(CharAt(prompt, j))
           stop == SkipDigits(prompt, start)
           at == SkipSpaces(prompt, stop)
           hits == {k \in 1..Len(UnitTokens) : MatchesAt(prompt, at, UnitTokens[k])}
       IN Some([digits |-> SubSeq(prompt, start, stop - 1),
                unit |-> IF hits = {} THEN None
                         ELSE Some(UnitTokens[CHOOSE k \in hits :
                                                \A m \in hits : k <= m])])

\* the size used when the prompt holds no number
DefaultSize == 10
DefaultUnit == "mm"

\* 'shape_' + Math.random().toString(36).substr(2, 9), for the random text drawn
generateId(suffix) == "shape_" \o suffix

ShapeClarification ==
  [status |-> "clarification",
   message |-> "Could not determine what shape to create.",
   details |-> Some("Please specify a shape type such as \"cube\", \"sphere\", or \"cylinder\"."),
   suggestedActions |-> Some(<<[type |-> "clarify",
                                description |-> "Specify a primitive shape"]>>)]

\* error instanceof Error ? error.message : fallback
ErrorText(error, fallback) == IF error.isError THEN error.message ELSE fallback

\* the catch block of parseDesignIntent
ParseFailure(error) ==
  [status |-> "error",
   message |-> "Failed to parse design intent",
   details |-> Some(ErrorText(error, "Unknown error")),
   suggestedActions |-> None]

\* the parser extended by a branch for the keyword cone
parseDesignIntentWithCone(intentPrompt, suffix, now) ==
  LET Parsed(prompt) ==
        LET dimensionMatch == DimensionMatch(prompt)
            size == IF dimensionMatch # None
                    THEN ParseDigits(dimensionMatch[1].digits, 0) ELSE DefaultSize
            unit == IF dimensionMatch # None /\ dimensionMatch[1].unit # None
                    THEN dimensionMatch[1].unit[1] ELSE DefaultUnit
            metadata == [name |-> "Design from \"" \o intentPrompt \o "\"",
                         description |-> intentPrompt,
                         author |-> "MCP User",
                         createdAt |-> now,
                         units |-> "mm"]
            design(primitive) == [primitives |-> <<primitive>>,
                                  operations |-> <<>>,
                                  metadata |-> metadata]
        IN IF Includes(prompt, "cube") \/ Includes(prompt, "box")
           THEN design([id |-> generateId(suffix), type |-> "cube",
                        parameters |-> [length |-> Whole(size), width |-> Whole(size),
                                        height |-> Whole(size), unit |-> unit],
                        position |-> None, rotation |-> None])
           ELSE IF Includes(prompt, "sphere")
           THEN design([id |-> generateId(suffix), type |-> "sphere",
                        parameters |-> [radius |-> HalfOf(size), unit |-> unit],
                        position |-> None, rotation |-> None])
           ELSE IF Includes(prompt, "cylinder")
           THEN design([id |-> generateId(suffix), type |-> "cylinder",
                        parameters |-> [radius |-> HalfOf(size), height |-> Whole(size),
                                        unit |-> unit],
                        position |-> None, rotation |-> None])
           ELSE IF Includes(prompt, "cone")
           THEN design([id |-> generateId(suffix), type |-> "cone",
                        parameters |-> [radius1 |-> HalfOf(size), height |-> Whole(size),
                                        unit |-> unit],
                        position |-> None, rotation |-> None])
           ELSE ShapeClarification
  IN CHOOSE result \in {Parsed(prompt) : prompt \in {ToLowerCase(intentPrompt)}} : TRUE

\* the body of the try block of parseDesignIntent; suffix and now are what
\* Math.random and the clock give (prompt is bound as a value, so that the
\* text is lower-cased once)
parseDesignIntent(intentPrompt, suffix, now) ==
  LET Parsed(prompt) ==
        LET dimensionMatch == DimensionMatch(prompt)
            size == IF dimensionMatch # None
                    THEN ParseDigits(dimensionMatch[1].digits, 0) ELSE DefaultSize
            unit == IF dimensionMatch # None /\ dimensionMatch[1].unit # None
                    THEN dimensionMatch[1].unit[1] ELSE DefaultUnit
            metadata == [name |-> "Design from \"" \o intentPrompt \o "\"",
                         description |-> intentPrompt,
                         author |-> "MCP User",
                         createdAt |-> now,
                         units |-> "mm"]
            design(primitive) == [primitives |-> <<primitive>>,
                                  operations |-> <<>>,
                                  metadata |-> metadata]
        IN IF Includes(prompt, "cube") \/ Includes(prompt, "box")
           THEN design([id |-> generateId(suffix), type |-> "cube",
                        parameters |-> [length |-> Whole(size), width |-> Whole(size),
                                        height |-> Whole(size), unit |-> unit],
                        position |-> None, rotation |-> None])
           ELSE IF Includes(prompt, "sphere")
           THEN design([id |-> generateId(suffix), type |-> "sphere",
                        parameters |-> [radius |-> HalfOf(size), unit |-> unit],
                        position |-> None, rotation |-> None])
           ELSE IF Includes(prompt, "cylinder")
           THEN design([id |-> generateId(suffix), type |-> "cylinder",
                        parameters |-> [radius |-> HalfOf(size), height |-> Whole(size),
                                        unit |-> unit],
                        position |-> None, rotation |-> None])
           ELSE ShapeClarification
  IN CHOOSE result \in {Parsed(prompt) : prompt \in {ToLowerCase(intentPrompt)}} : TRUE

(***************************************************************************)
(* design-generator.                                                        *)
(***************************************************************************)
\* the text interpolated for parameters[key] read as a number
ParamText(parameters, key) ==
  IF key \in DOMAIN parameters THEN NumberToString(parameters[key])
  ELSE "undefined"

\* the text interpolated for (value as number || fallback), value optional
OrDefaultText(parameters, key, fallback) ==
  IF parameters # None /\ key \in DOMAIN parameters[1]
     /\ parameters[1][key] # Whole(0)
  THEN NumberToString(parameters[1][key])
  ELSE NumberToString(fallback)

VectorText(v) ==
  NumberToString(v.x) \o ", " \o NumberToString(v.y) \o ", " \o NumberToString(v.z)

\* the creation statement the switch of generatePrimitiveCode pushes
CreationLines(primitive) ==
  LET varName == primitive.id
      P == primitive.parameters
  IN CASE primitive.type = "cube" ->
            <<varName \o " = Part.makeBox(" \o ParamText(P, "length") \o ", "
                \o ParamText(P, "width") \o ", " \o ParamText(P, "height") \o ")">>
       [] primitive.type = "sphere" ->
            <<varName \o " = Part.makeSphere(" \o ParamText(P, "radius") \o ")">>
       [] primitive.type = "cylinder" ->
            <<varName \o " = Part.makeCylinder(" \o ParamText(P, "radius") \o ", "
                \o ParamText(P, "height") \o ")">>
       [] primitive.type = "cone" ->
            <<varName \o " = Part.makeCone(" \o ParamText(P, "radius1") \o ", "
                \o OrDefaultText(Some(P), "radius2", Whole(0)) \o ", "
                \o ParamText(P, "height") \o ")">>
       [] primitive.type = "torus" ->
            <<varName \o " = Part.makeTorus(" \o ParamText(P, "radius1") \o ", "
                \o ParamText(P, "radius2") \o ")">>
       [] OTHER -> <<>>

\* the three rotations emitted about Z, then Y, then X
generatePrimitiveCodeZYX(primitive) ==
  LET varName == primitive.id
  IN CreationLines(primitive)
     \o (IF primitive.position # None
         THEN <<varName \o ".translate(Base.Vector("
                  \o VectorText(primitive.position[1]) \o "))">>
         ELSE <<>>)
     \o (IF primitive.rotation # None
         THEN LET rot == primitive.rotation[1]
              IN <<varName \o ".rotate(Base.Vector(0,0,0), Base.Vector(0,0,1), "
                     \o NumberToString(rot.z) \o ")",
                   varName \o ".rotate(Base.Vector(0,0,0), Base.Vector(0,1,0), "
                     \o NumberToString(rot.y) \o ")",
                   varName \o ".rotate(Base.Vector(0,0,0), Base.Vector(1,0,0), "
                     \o NumberToString(rot.x) \o ")">>
         ELSE <<>>)
     \o <<"shape_obj = doc.addObject(\"Part::Feature\", \""
            \o Capitalize(primitive.type) \o "\")",
          "shape_obj.Shape = " \o varName>>

generatePrimitiveCode(primitive) ==
  LET varName == primitive.id
  IN CreationLines(primitive)
     \o (IF primitive.position # None
         THEN <<varName \o ".translate(Base.Vector("
                  \o VectorText(primitive.position[1]) \o "))">>
         ELSE <<>>)
     \o (IF primitive.rotation # None
         THEN LET rot == primitive.rotation[1]
              IN <<varName \o ".rotate(Base.Vector(0,0,0), Base.Vector(1,0,0), "
                     \o NumberToString(rot.x) \o ")",
                   varName \o ".rotate(Base.Vector(0,0,0), Base.Vector(0,1,0), "
                     \o NumberToString(rot.y) \o ")",
                   varName \o ".rotate(Base.Vector(0,0,0), Base.Vector(0,0,1), "
                     \o NumberToString(rot.z) \o ")">>
         ELSE <<>>)
     \o <<"shape_obj = doc.addObject(\"Part::Feature\", \""
            \o Capitalize(primitive.type) \o "\")",
          "shape_obj.Shape = " \o varName>>

\* targetIds[0] as a template literal prints it
FirstTarget(targetIds) ==
  IF Len(targetIds) = 0 THEN "undefined" ELSE targetIds[1]

\* the second target alone: targetIds[1]
RestTargetsSecondOnly(targetIds) ==
  IF Len(targetIds) < 2 THEN "" ELSE targetIds[2]

\* targetIds.slice(1).join(', ')
RestTargets(targetIds) ==
  IF Len(targetIds) = 0 THEN "" ELSE Join(Tail(targetIds), ", ")

\* the statement the switch of generateOperationCode pushes
CombinatorLines(operation) ==
  LET resultName == "result_" \o operation.type \o "_"
                      \o Join(operation.targetIds, "_")
      first == FirstTarget(operation.targetIds)
      rest == RestTargets(operation.targetIds)
  IN CASE operation.type = "union" ->
            <<resultName \o " = " \o first \o ".fuse(" \o rest \o ")">>
       [] operation.type = "difference" ->
            <<resultName \o " = " \o first \o ".cut(" \o rest \o ")">>
       [] operation.type = "intersection" ->
            <<resultName \o " = " \o first \o ".common(" \o rest \o ")">>
       [] operation.type = "fillet" ->
            <<resultName \o " = " \o first \o ".makeFillet("
                \o OrDefaultText(operation.parameters, "radius", Whole(1))
                \o ", " \o first \o ".Edges)">>
       [] operation.type = "chamfer" ->
            <<resultName \o " = " \o first \o ".makeChamfer("
                \o OrDefaultText(operation.parameters, "distance", Whole(1))
                \o ", " \o first \o ".Edges)">>
       [] OTHER -> <<>>

generateOperationCode(operation) ==
  LET resultName == "result_" \o operation.type \o "_"
                      \o Join(operation.targetIds, "_")
  IN CombinatorLines(operation)
     \o <<"result_obj = doc.addObject(\"Part::Feature\", \""
            \o Capitalize(operation.type) \o "\")",
          "result_obj.Shape = " \o resultName>>

ScriptImports == <<"import FreeCAD as App", "import Part", "from FreeCAD import Base">>

PrimitiveSection(primitive) ==
  <<"# Create " \o primitive.type>> \o generatePrimitiveCode(primitive) \o <<"">>

OperationSection(operation) == generateOperationCode(operation) \o <<"">>

\* the operations section emitted before the primitives section
CodeLinesOperationsFirst(design) ==
  ScriptImports
  \o <<"", "# Create a new document", "doc = App.newDocument()", "">>
  \o (IF Len(design.operations) > 0
      THEN <<"# Apply operations">>
           \o Flatten([i \in 1..Len(design.operations) |->
                         OperationSection(design.operations[i])])
      ELSE <<>>)
  \o Flatten([i \in 1..Len(design.primitives) |->
                PrimitiveSection(design.primitives[i])])
  \o <<"# Recompute the document", "doc.recompute()", "",
       "# Save the document (optional)",
       "# doc.saveAs(\"" \o SanitizeName(design.metadata.name) \o ".FCStd\")">>

\* the lines generateFreeCADCode joins
CodeLines(design) ==
  ScriptImports
  \o <<"", "# Create a new document", "doc = App.newDocument()", "">>
  \o Flatten([i \in 1..Len(design.primitives) |->
                PrimitiveSection(design.primitives[i])])
  \o (IF Len(design.operations) > 0
      THEN <<"# Apply operations">>
           \o Flatten([i \in 1..Len(design.operations) |->
                         OperationSection(design.operations[i])])
      ELSE <<>>)
  \o <<"# Recompute the document", "doc.recompute()", "",
       "# Save the document (optional)",
       "# doc.saveAs(\"" \o SanitizeName(design.metadata.name) \o ".FCStd\")">>

generateFreeCADCode(design) ==
  [code |-> Join(CodeLines(design), "\n"),
   imports |-> ScriptImports,
   safeToExecute |-> TRUE]

dangerousPatterns ==
  <<"import os", "import sys", "import subprocess", "exec(", "eval(",
    "execfile(", "__import__", "open(", "file(", "system(", "popen(">>

\* the advisory flag believed: a script marked safeToExecute is not scanned
validateScriptSafetyTrustsFlag(script) ==
  \/ script.safeToExecute
  \/ LET code == ToLowerCase(script.code)
     IN ~ \E k \in 1..Len(dangerousPatterns) :
            Includes(code, ToLowerCase(dangerousPatterns[k]))

\* (code and each pattern are bound as values, so that they are lower-cased once)
validateScriptSafety(script) ==
  \A code \in {ToLowerCase(script.code)} :
    ~ \E pattern \in {ToLowerCase(dangerousPatterns[k]) :
                        k \in 1..Len(dangerousPatterns)} :
         Includes(code, pattern)

(***************************************************************************)
(* feedback-collector.                                                      *)
(***************************************************************************)
\* result.warnings && result.warnings.length > 0
HasWarnings(result) == result.warnings # None /\ Len(result.warnings[1]) > 0

\* the modify action pushed whatever the warnings are
getSuggestedActionsForSuccessAlways(result) ==
  <<[type |-> "accept", description |-> "Use this model"],
    [type |-> "modify", description |-> "Modify design to address warnings"]>>

getSuggestedActionsForSuccess(result) ==
  <<[type |-> "accept", description |-> "Use this model"]>>
  \o (IF HasWarnings(result)
      THEN <<[type |-> "modify", description |-> "Modify design to address warnings"]>>
      ELSE <<>>)

getSuggestedActionsForFailure(result) ==
  <<[type |-> "regenerate", description |-> "Try again with simplified geometry"],
    [type |-> "modify", description |-> "Modify design parameters"],
    [type |-> "clarify", description |-> "Provide more details about the design"]>>

generateUserFeedback(result) ==
  IF result.success
  THEN [status |-> "success",
        message |-> "Model created successfully!",
        details |-> Some(IF HasWarnings(result)
                         THEN "Model created with "
                                \o IntToString(Len(result.warnings[1]))
                                \o " warning(s)."
                         ELSE "The model was created without any warnings."),
        suggestedActions |-> Some(getSuggestedActionsForSuccess(result))]
  ELSE [status |-> "error",
        message |-> "Failed to create model.",
        details |-> Some(IF result.errorMessage # None /\ result.errorMessage[1] # ""
                         THEN result.errorMessage[1]
                         ELSE "An unknown error occurred during execution."),
        suggestedActions |-> Some(getSuggestedActionsForFailure(result))]

InvalidShapeText ==
  "The design resulted in an invalid shape. Try simplifying your geometry."
OutOfRangeText ==
  "One or more parameters are out of the allowed range. Check your dimensions."

\* the fall-through branch decorating the message
formatErrorMessagePrefixed(errorMessage) ==
  IF Includes(errorMessage, "TopoDS_Shape is null") THEN InvalidShapeText
  ELSE IF Includes(errorMessage, "out of bounds") THEN OutOfRangeText
  ELSE "Error: " \o errorMessage

formatErrorMessage(errorMessage) ==
  IF Includes(errorMessage, "TopoDS_Shape is null") THEN InvalidShapeText
  ELSE IF Includes(errorMessage, "out of bounds") THEN OutOfRangeText
  ELSE errorMessage

(***************************************************************************)
(* execution-engine: executeScript.                                         *)
(***************************************************************************)
UnsafeResult ==
  [success |-> FALSE,
   objectIds |-> None,
   errorMessage |-> Some("Script contains potentially unsafe operations and cannot be executed."),
   warnings |-> Some(<<"Potentially unsafe code detected.">>),
   renderUrl |-> None]

SuccessResult ==
  [success |-> TRUE,
   objectIds |-> Some(<<"Object001", "Object002">>),
   errorMessage |-> None,
   warnings |-> Some(<<>>),
   renderUrl |-> Some("/models/cube-render.png")]

\* the catch block of executeScript
ExecutionFailure(error) ==
  [success |-> FALSE,
   objectIds |-> None,
   errorMessage |-> Some(ErrorText(error, "Unknown error during execution")),
   warnings |-> Some(<<"Execution failed. Check FreeCAD connection.">>),
   renderUrl |-> None]

\* executeScript without its own safety check
executeScriptUnchecked(script) ==
  [pc |-> "InFlight", script |-> Some(script), result |-> None,
   submitted |-> 1, thrown |-> None]

\* executeScript up to its suspension point: the state of the call and whether
\* the script was handed to the engine
executeScript(script) ==
  IF ~validateScriptSafety(script)
  THEN [pc |-> "Returned", script |-> Some(script), result |-> Some(UnsafeResult),
        submitted |-> 0, thrown |-> None]
  ELSE [pc |-> "InFlight", script |-> Some(script), result |-> None,
        submitted |-> 1, thrown |-> None]

ExecIdle ==
  [pc |-> "Idle", script |-> None, result |-> None, submitted |-> 0,
   thrown |-> None]

(***************************************************************************)
(* index: the payloads processDesignIntent returns.                         *)
(***************************************************************************)
ClarificationPayload(questions) ==
  [structuredDesign |-> None, script |-> None, executionResult |-> None,
   feedback |->
     [status |-> "clarification",
      message |-> "Your design intent needs more details.",
      details |-> Some("Please provide additional information to create your model."),
      suggestedActions |->
        Some([i \in 1..Len(questions) |->
                [type |-> "clarify", description |-> questions[i]]])]]

\* return { feedback: parsedResult }
ParserFeedbackPayload(parsedResult) ==
  [structuredDesign |-> None, script |-> None, executionResult |-> None,
   feedback |-> parsedResult]

\* an unsafe-script return that carries the feedback alone
UnsafePayloadBare(parsedResult, script) ==
  [structuredDesign |-> None, script |-> None, executionResult |-> None,
   feedback |->
     [status |-> "error",
      message |-> "Generated code contains unsafe operations.",
      details |-> Some("The system detected potentially dangerous operations in the generated code."),
      suggestedActions |->
        Some(<<[type |-> "modify",
                description |-> "Modify your design intent to avoid unsafe operations."]>>)]]

UnsafePayload(parsedResult, script) ==
  [structuredDesign |-> Some(parsedResult), script |-> Some(script),
   executionResult |-> None,
   feedback |->
     [status |-> "error",
      message |-> "Generated code contains unsafe operations.",
      details |-> Some("The system detected potentially dangerous operations in the generated code."),
      suggestedActions |->
        Some(<<[type |-> "modify",
                description |-> "Modify your design intent to avoid unsafe operations."]>>)]]

CompletedPayload(parsedResult, script, executionResult) ==
  [structuredDesign |-> Some(parsedResult), script |-> Some(script),
   executionResult |-> Some(executionResult),
   feedback |-> generateUserFeedback(executionResult)]

\* the catch block of processDesignIntent
CatchPayload(error) ==
  [structuredDesign |-> None, script |-> None, executionResult |-> None,
   feedback |->
     [status |-> "error",
      message |-> "An unexpected error occurred while processing your design.",
      details |-> Some(ErrorText(error, "Unknown error")),
      suggestedActions |->
        Some(<<[type |-> "regenerate",
                description |-> "Try again with a simpler design"]>>)]]

\* a try block that opens only after the clarification gate
TryCoversAfterGate(stage) ==
  stage \in {"Parse", "Compiling", "Validating", "Dispatching", "Awaiting",
             "Synthesizing"}

\* the statements of processDesignIntent that lie inside its try block
TryCovers(stage) ==
  stage \in {"Gate", "Parse", "Compiling", "Validating", "Dispatching",
             "Awaiting", "Synthesizing"}

\* the safety test left out of processDesignIntent
PassesSafetyGateSkipped(verdict) == TRUE

\* the orchestrator's test of what validateScriptSafety returned, before the
\* Broker is called
PassesSafetyGate(verdict) == verdict

\* 'status' in parsedResult
IsFeedback(parsedResult) == "status" \in DOMAIN parsedResult

(***************************************************************************)
(* Inputs.                                                                  *)
(***************************************************************************)
\* every text made of at most n of the given fragments
Texts(fragments, n) ==
  {Join(f, "") : f \in UNION {[1..k -> fragments] : k \in 0..n}}

PromptFragments == {"box", "Cone", "torus ", "sphere", "7", " 12mm", "!!IMPORT!!"}
Prompts == Texts(PromptFragments, MaxFrags)

\* the prompts of the concurrent requests
ConcPrompts == {"box 7", "Cone 7", "sphere", "box7!!IMPORT!!"}

\* what Math.random().toString(36).substr(2, 9) may give
IdSuffixes == {"k3x9q0zr1", "i"}
\* what new Date().toISOString() may give
Timestamps == {"2025-01-01T00:00:00.000Z"}

\* values a stage of the orchestrator may throw
StageThrown == {[isError |-> TRUE, message |-> "Invalid string length"],
                [isError |-> FALSE, message |-> ""]}
\* values the engine call inside executeScript may throw
EngineThrown == {[isError |-> TRUE, message |-> "TopoDS_Shape is null"],
                 [isError |-> TRUE, message |-> "Index out of bounds: 7"],
                 [isError |-> TRUE, message |-> "Connection refused"],
                 [isError |-> TRUE, message |-> ""],
                 [isError |-> FALSE, message |-> ""]}

(***************************************************************************)
(* State.                                                                   *)
(***************************************************************************)
Reqs == 1..NumReqs

VARIABLES
  pc,               \* pc[r]: where request r of processDesignIntent stands
  intent,           \* intent[r]: the prompt of request r, once called
  parsedResult,     \* the local parsedResult of request r
  script,           \* the local script of request r
  safe,             \* what validateScriptSafety(script) returned to request r
  executionResult,  \* the local executionResult of request r
  payload,          \* what request r returned
  outcome,          \* "pending", "returned", or "threw" (the promise rejected)
  fault,            \* the stage and value of the exception raised in request r
  exec,             \* exec[r]: the executeScript call made by (or for) r
  call              \* the last direct call of a pure function: fn, arg, out

vars == <<pc, intent, parsedResult, script, safe, executionResult, payload,
          outcome, fault, exec, call>>

pipeVars == <<pc, intent, parsedResult, script, safe, executionResult, payload,
              outcome, fault>>

Init ==
  /\ pc = [r \in Reqs |-> "Idle"]
  /\ intent = [r \in Reqs |-> None]
  /\ parsedResult = [r \in Reqs |-> None]
  /\ script = [r \in Reqs |-> None]
  /\ safe = [r \in Reqs |-> None]
  /\ executionResult = [r \in Reqs |-> None]
  /\ payload = [r \in Reqs |-> None]
  /\ outcome = [r \in Reqs |-> "pending"]
  /\ fault = [r \in Reqs |-> None]
  /\ exec = [r \in Reqs |-> ExecIdle]
  /\ call = [fn |-> "none", arg |-> None, out |-> None]

(***************************************************************************)
(* processDesignIntent, one action per stage.                               *)
(***************************************************************************)
\* return p
Return(r, p) ==
  /\ pc' = [pc EXCEPT ![r] = "Done"]
  /\ payload' = [payload EXCEPT ![r] = Some(p)]
  /\ outcome' = [outcome EXCEPT ![r] = "returned"]

\* an exception raised at the given stage of request r
Throw(r, stage, error) ==
  /\ fault' = [fault EXCEPT ![r] = Some([stage |-> stage, error |-> error])]
  /\ pc' = [pc EXCEPT ![r] = "Done"]
  /\ IF TryCovers(stage)
     THEN /\ payload' = [payload EXCEPT ![r] = Some(CatchPayload(error))]
          /\ outcome' = [outcome EXCEPT ![r] = "returned"]
     ELSE /\ payload' = payload
          /\ outcome' = [outcome EXCEPT ![r] = "threw"]

\* processDesignIntent(intent) is called
Start(r, prompts) ==
  /\ pc[r] = "Idle"
  /\ exec[r].pc = "Idle"
  /\ \E p \in prompts : intent' = [intent EXCEPT ![r] = Some(p)]
  /\ pc' = [pc EXCEPT ![r] = "Gate"]
  /\ UNCHANGED <<parsedResult, script, safe, executionResult, payload, outcome,
                 fault, exec, call>>

\* if (needsClarification(intent)) return the clarification feedback
Gate(r) ==
  /\ pc[r] = "Gate"
  /\ IF needsClarification(intent[r][1])
     THEN Return(r, ClarificationPayload(generateClarificationQuestions(intent[r][1])))
     ELSE /\ pc' = [pc EXCEPT ![r] = "Parse"]
          /\ UNCHANGED <<payload, outcome>>
  /\ UNCHANGED <<intent, parsedResult, script, safe, executionResult, fault, exec, call>>

\* parsedResult = await parseDesignIntent(intent); if ('status' in parsedResult) return
ParseStep(r, result) ==
  /\ parsedResult' = [parsedResult EXCEPT ![r] = Some(result)]
  /\ IF IsFeedback(result)
     THEN Return(r, ParserFeedbackPayload(result))
     ELSE /\ pc' = [pc EXCEPT ![r] = "Compiling"]
          /\ UNCHANGED <<payload, outcome>>

Parse(r) ==
  /\ pc[r] = "Parse"
  /\ \E suffix \in IdSuffixes, now \in Timestamps :
       ParseStep(r, parseDesignIntent(intent[r][1], suffix, now))
  /\ UNCHANGED <<intent, script, safe, executionResult, fault, exec, call>>

\* an exception inside parseDesignIntent: its own catch block answers
ParseThrows(r) ==
  /\ pc[r] = "Parse"
  /\ \E error \in StageThrown :
       /\ ParseStep(r, ParseFailure(error))
       /\ fault' = [fault EXCEPT ![r] = Some([stage |-> "Parse", error |-> error])]
  /\ UNCHANGED <<intent, script, safe, executionResult, exec, call>>

\* script = generateFreeCADCode(parsedResult)
Compile(r) ==
  /\ pc[r] = "Compiling"
  /\ script' = [script EXCEPT ![r] = Some(generateFreeCADCode(parsedResult[r][1]))]
  /\ pc' = [pc EXCEPT ![r] = "Validating"]
  /\ UNCHANGED <<intent, parsedResult, safe, executionResult, payload, outcome,
                 fault, exec, call>>

\* if (!validateScriptSafety(script)) return the unsafe-script feedback
Validate(r) ==
  /\ pc[r] = "Validating"
  /\ LET verdict == validateScriptSafety(script[r][1])
     IN /\ safe' = [safe EXCEPT ![r] = Some(verdict)]
        /\ IF ~PassesSafetyGate(verdict)
           THEN Return(r, UnsafePayload(parsedResult[r][1], script[r][1]))
           ELSE /\ pc' = [pc EXCEPT ![r] = "Dispatching"]
                /\ UNCHANGED <<payload, outcome>>
  /\ UNCHANGED <<intent, parsedResult, script, executionResult, fault, exec, call>>

\* executeScript(script) is called and runs to its suspension point or return
Dispatch(r) ==
  /\ pc[r] = "Dispatching"
  /\ exec' = [exec EXCEPT ![r] = executeScript(script[r][1])]
  /\ pc' = [pc EXCEPT ![r] = "Awaiting"]
  /\ UNCHANGED <<intent, parsedResult, script, safe, executionResult, payload,
                 outcome, fault, call>>

\* executeScript throws before its try block: the promise rejects
DispatchThrows(r) ==
  /\ pc[r] = "Dispatching"
  /\ exec' = [exec EXCEPT ![r] = [pc |-> "Rejected", script |-> script[r],
                                  result |-> None, submitted |-> 0,
                                  thrown |-> None]]
  /\ \E error \in StageThrown : Throw(r, "Dispatching", error)
  /\ UNCHANGED <<intent, parsedResult, script, safe, executionResult, call>>

\* the engine answers the submission in flight (the timer resolves)
EngineReply(c) ==
  /\ exec[c].pc = "InFlight"
  /\ exec' = [exec EXCEPT ![c].pc = "Returned", ![c].result = Some(SuccessResult)]
  /\ UNCHANGED <<pipeVars, call>>

\* the try block of executeScript throws: its catch block answers
EngineThrows(c) ==
  /\ exec[c].pc = "InFlight"
  /\ \E error \in EngineThrown :
       exec' = [exec EXCEPT ![c].pc = "Returned",
                            ![c].result = Some(ExecutionFailure(error)),
                            ![c].thrown = Some(error)]
  /\ UNCHANGED <<pipeVars, call>>

\* the await resumed only by a successful result
ResumeAfterSuccess(r) ==
  /\ pc[r] = "Awaiting"
  /\ exec[r].pc = "Returned"
  /\ exec[r].result[1].success
  /\ executionResult' = [executionResult EXCEPT ![r] = exec[r].result]
  /\ pc' = [pc EXCEPT ![r] = "Synthesizing"]
  /\ UNCHANGED <<intent, parsedResult, script, safe, payload, outcome, fault, exec, call>>

\* a failed execution sent back to the compiler instead of being reported
ResumeRegenerating(r) ==
  /\ pc[r] = "Awaiting"
  /\ exec[r].pc = "Returned"
  /\ executionResult' = [executionResult EXCEPT ![r] = exec[r].result]
  /\ pc' = [pc EXCEPT ![r] = IF exec[r].result[1].success
                              THEN "Synthesizing" ELSE "Compiling"]
  /\ UNCHANGED <<intent, parsedResult, script, safe, payload, outcome, fault, exec, call>>

\* executionResult = await executeScript(script) resumes
Resume(r) ==
  /\ pc[r] = "Awaiting"
  /\ exec[r].pc = "Returned"
  /\ executionResult' = [executionResult EXCEPT ![r] = exec[r].result]
  /\ pc' = [pc EXCEPT ![r] = "Synthesizing"]
  /\ UNCHANGED <<intent, parsedResult, script, safe, payload, outcome, fault, exec, call>>

\* feedback = generateUserFeedback(executionResult); return the full payload
Synthesize(r) ==
  /\ pc[r] = "Synthesizing"
  /\ Return(r, CompletedPayload(parsedResult[r][1], script[r][1],
                                executionResult[r][1]))
  /\ UNCHANGED <<intent, parsedResult, script, safe, executionResult, fault, exec, call>>

\* an exception in a stage of the orchestrator itself
Raise(r) ==
  /\ pc[r] \in {"Gate", "Compiling", "Validating", "Synthesizing"}
  /\ \E error \in StageThrown : Throw(r, pc[r], error)
  /\ UNCHANGED <<intent, parsedResult, script, safe, executionResult, exec, call>>

Pipeline(r, prompts) ==
  \/ Start(r, prompts)
  \/ Gate(r)
  \/ Parse(r)
  \/ ParseThrows(r)
  \/ Compile(r)
  \/ Validate(r)
  \/ Dispatch(r)
  \/ DispatchThrows(r)
  \/ EngineReply(r)
  \/ EngineThrows(r)
  \/ Resume(r)
  \/ Synthesize(r)
  \/ Raise(r)

\* one request at a time, every prompt
Next == Pipeline(1, Prompts)
Spec == Init /\ [][Next]_vars

\* a step of the code of request r itself: a started call runs on
Advance(r) ==
  \/ Gate(r)
  \/ Parse(r)
  \/ ParseThrows(r)
  \/ Compile(r)
  \/ Validate(r)
  \/ Dispatch(r)
  \/ DispatchThrows(r)
  \/ Resume(r)
  \/ Synthesize(r)
  \/ Raise(r)

\* the pending reply of the engine arrives: the awaited promise settles
EngineAnswer(c) == EngineReply(c) \/ EngineThrows(c)

\* prompts for each branch: both gate clarifications, the parser's
\* clarification, the unsafe script, and scripts that reach the engine
LivePrompts == ConcPrompts \cup {"", "box", "7", "sphere 12mm"}

NextLive == Pipeline(1, LivePrompts)

\* one request whose code keeps running and whose engine reply is delivered
SpecLive ==
  Init /\ [][NextLive]_vars /\ WF_vars(Advance(1)) /\ WF_vars(EngineAnswer(1))

\* one request whose code keeps running, the engine free never to answer
SpecEngineSilent == Init /\ [][NextLive]_vars /\ WF_vars(Advance(1))

\* NumReqs requests running concurrently
NextConc == \E r \in Reqs : Pipeline(r, ConcPrompts)
SpecConc == Init /\ [][NextConc]_vars

(***************************************************************************)
(* The exported functions called directly, outside processDesignIntent.     *)
(***************************************************************************)
ScriptFragments ==
  {"import os", "IMPORT OS", "import sys", "ev", "al(", "doc.recompute()", "\n"}

\* scripts handed to executeScript by a direct caller
Scripts ==
  {[code |-> c, imports |-> <<>>, safeToExecute |-> f] :
     c \in Texts(ScriptFragments, MaxParts), f \in BOOLEAN}

WarningLists == UNION {[1..k -> {"Thin wall", "Self-intersection"}] : k \in 0..MaxParts}

\* ExecutionResult values handed to generateUserFeedback
Results ==
  {[success |-> ok, objectIds |-> None, errorMessage |-> m,
    warnings |-> w, renderUrl |-> None] :
     ok \in BOOLEAN,
     m \in {None, Some(""), Some("TopoDS_Shape is null")},
     w \in {None} \cup {Some(l) : l \in WarningLists}}

MessageFragments ==
  {"TopoDS_Shape is null", "out of bounds", "out of ", "bounds",
   "topods_shape is null", "Error: "}
Messages == Texts(MessageFragments, MaxParts)

SamplePrimitives ==
  {[id |-> "shape_a", type |-> "cube",
    parameters |-> [length |-> Whole(10), width |-> Whole(20),
                    height |-> Whole(30), unit |-> "mm"],
    position |-> None, rotation |-> None],
   [id |-> "shape_b", type |-> "sphere",
    parameters |-> [radius |-> HalfOf(7), unit |-> "cm"],
    position |-> Some([x |-> Whole(1), y |-> Whole(2), z |-> Whole(3)]),
    rotation |-> Some([x |-> Whole(90), y |-> Whole(0), z |-> Whole(45)])],
   [id |-> "shape_c", type |-> "cone",
    parameters |-> [radius1 |-> Whole(4), height |-> Whole(9)],
    position |-> None,
    rotation |-> Some([x |-> Whole(0), y |-> Whole(90), z |-> Whole(0)])],
   [id |-> "shape_d", type |-> "cylinder",
    parameters |-> [radius |-> Whole(2), height |-> Whole(5), unit |-> "mm"],
    position |-> Some([x |-> Whole(0), y |-> Whole(0), z |-> Whole(8)]),
    rotation |-> None],
   [id |-> "shape_e", type |-> "torus",
    parameters |-> [radius1 |-> Whole(6), radius2 |-> Whole(1)],
    position |-> None, rotation |-> None]}

SampleOperations ==
  {[type |-> "union", targetIds |-> <<"shape_a", "shape_b">>,
    parameters |-> None],
   [type |-> "union", targetIds |-> <<"shape_a", "shape_b", "shape_c">>,
    parameters |-> None],
   [type |-> "difference", targetIds |-> <<"shape_a", "shape_d">>,
    parameters |-> None],
   [type |-> "intersection", targetIds |-> <<"shape_b", "shape_a">>,
    parameters |-> None],
   [type |-> "fillet", targetIds |-> <<"shape_a", "shape_b">>,
    parameters |-> Some([radius |-> Whole(0)])],
   [type |-> "fillet", targetIds |-> <<"shape_d">>,
    parameters |-> Some([radius |-> Whole(2)])],
   [type |-> "chamfer", targetIds |-> <<"shape_a">>,
    parameters |-> None],
   [type |-> "intersection", targetIds |-> <<>>,
    parameters |-> None]}

\* the lists of at most n elements of S
ListsOf(S, n) == UNION {[1..k -> S] : k \in 0..n}

Ids(primitives) == {primitives[i].id : i \in 1..Len(primitives)}
Targets(operation) ==
  {operation.targetIds[i] : i \in 1..Len(operation.targetIds)}

\* the StructuredDesign of a list of primitives and a list of operations
DesignOf(primitives, operations) ==
  [primitives |-> primitives, operations |-> operations,
   metadata |-> [name |-> "Bracket #1", description |-> "", author |-> "MCP User",
                 createdAt |-> "2025-01-01T00:00:00.000Z", units |-> "mm"]]

\* three primitives joined by one union of the three
ThreeTargetDesign ==
  LET ids == <<"shape_a", "shape_b", "shape_c">>
  IN DesignOf([i \in 1..3 |-> CHOOSE p \in SamplePrimitives : p.id = ids[i]],
              <<[type |-> "union", targetIds |-> ids, parameters |-> None]>>)

\* StructuredDesign values handed to generateFreeCADCode: the ids of the
\* primitives are unique and every operation targets primitives of the design
Designs ==
  {DesignOf(d[1], d[2]) :
     d \in {e \in ListsOf(SamplePrimitives, MaxItems)
                    \X ListsOf(SampleOperations, MaxItems) :
              /\ \A i, j \in 1..Len(e[1]) : e[1][i].id = e[1][j].id => i = j
              /\ \A k \in 1..Len(e[2]) : Targets(e[2][k]) \subseteq Ids(e[1])}}
  \cup {ThreeTargetDesign}

\* One exported function is called per run.

\* executeScript(script) called by a direct caller c
DirectExecute(c) ==
  /\ pc[c] = "Idle"
  /\ call.fn = "none"
  /\ exec[c].pc = "Idle"
  /\ \E s \in Scripts : exec' = [exec EXCEPT ![c] = executeScript(s)]
  /\ UNCHANGED <<pipeVars, call>>

CallGenerateUserFeedback ==
  /\ call.fn = "none"
  /\ exec[1].pc = "Idle"
  /\ \E result \in Results :
       call' = [fn |-> "generateUserFeedback", arg |-> result,
                out |-> generateUserFeedback(result)]
  /\ UNCHANGED <<pipeVars, exec>>

CallFormatErrorMessage ==
  /\ call.fn = "none"
  /\ exec[1].pc = "Idle"
  /\ \E m \in Messages :
       call' = [fn |-> "formatErrorMessage", arg |-> m,
                out |-> formatErrorMessage(m)]
  /\ UNCHANGED <<pipeVars, exec>>

CallGenerateFreeCADCode ==
  /\ call.fn = "none"
  /\ exec[1].pc = "Idle"
  /\ \E design \in Designs :
       call' = [fn |-> "generateFreeCADCode", arg |-> design,
                out |-> generateFreeCADCode(design)]
  /\ UNCHANGED <<pipeVars, exec>>

ValidatorFragments ==
  {"import os", "Import Sys", "import subprocess", "exec(", "EVAL(", "execfile(",
   "__import__", "open(", "file(", "system(", "popen(",
   "# ", "s = \"", "import", " os", "doc.recompute()"}

\* FreeCADScript values handed to validateScriptSafety
ValidatorScripts ==
  {[code |-> c, imports |-> i, safeToExecute |-> f] :
     c \in Texts(ValidatorFragments, MaxParts),
     i \in {<<>>, <<"import os">>},
     f \in BOOLEAN}

CallValidateScriptSafety ==
  /\ call.fn = "none"
  /\ exec[1].pc = "Idle"
  /\ \E s \in ValidatorScripts :
       call' = [fn |-> "validateScriptSafety", arg |-> s,
                out |-> validateScriptSafety(s)]
  /\ UNCHANGED <<pipeVars, exec>>

ParseFragments ==
  {"Sphere ", "cube", "a box", "cylinder", "cone", "12", " 7", "007", "5 ",
   "cm", " inch", "in", "m ", "MM"}

\* prompts handed to parseDesignIntent
ParsePrompts ==
  Texts(ParseFragments, MaxParts) \cup {"Create a cube with 10mm sides"}

CallParseDesignIntent ==
  /\ call.fn = "none"
  /\ exec[1].pc = "Idle"
  /\ \E prompt \in ParsePrompts, suffix \in IdSuffixes, now \in Timestamps :
       call' = [fn |-> "parseDesignIntent", arg |-> prompt,
                out |-> parseDesignIntent(prompt, suffix, now)]
  /\ UNCHANGED <<pipeVars, exec>>

NextDirect ==
  \/ DirectExecute(1)
  \/ CallParseDesignIntent
  \/ CallValidateScriptSafety
  \/ EngineReply(1)
  \/ EngineThrows(1)
  \/ CallGenerateUserFeedback
  \/ CallFormatErrorMessage
  \/ CallGenerateFreeCADCode
SpecDirect == Init /\ [][NextDirect]_vars

(***************************************************************************)
(* Properties.                                                              *)
(***************************************************************************)
Feedback(r) == payload[r][1].feedback

ActionTypes(fb) ==
  IF fb.suggestedActions = None THEN <<>>
  ELSE [i \in 1..Len(fb.suggestedActions[1]) |-> fb.suggestedActions[1][i].type]

ActionTexts(fb) ==
  IF fb.suggestedActions = None THEN {}
  ELSE {fb.suggestedActions[1][i].description : i \in 1..Len(fb.suggestedActions[1])}

HasAction(fb, type) == \E i \in 1..Len(ActionTypes(fb)) : ActionTypes(fb)[i] = type

\* request r has returned the unsafe-script feedback
ReturnedUnsafe(r) ==
  /\ pc[r] = "Done"
  /\ outcome[r] = "returned"
  /\ Feedback(r).message = "Generated code contains unsafe operations."

\* C1: the orchestrator calls executeScript only with the script it generated
\* and only after validateScriptSafety returned true for it; a request for
\* whose script it returned false never calls the Broker and ends with an
\* error feedback.
C1_BrokerOnlyGetsValidatedScripts ==
  \A r \in Reqs :
    /\ exec[r].script # None =>
         /\ exec[r].script = script[r]
         /\ safe[r] = Some(TRUE)
    /\ safe[r] = Some(FALSE) =>
         /\ exec[r] = ExecIdle
         /\ pc[r] = "Done"
         /\ outcome[r] = "returned"
         /\ Feedback(r).status = "error"

\* a request whose generated script holds a denylisted pattern has ended with
\* the unsafe-script feedback, the Broker untouched
C1_Witness ==
  \E r \in Reqs :
    /\ ReturnedUnsafe(r)
    /\ safe[r] = Some(FALSE)
    /\ Includes(script[r][1].code, "__IMPORT__")
    /\ exec[r] = ExecIdle

\* an exception was raised while request r ran, in a stage of the orchestrator
\* or inside the try block of executeScript
Raised(r) == fault[r] # None \/ exec[r].thrown # None

\* C3 as stated: no exception reaches the caller, and an exception raised in
\* any stage ends the request with an error feedback that suggests 'regenerate'.
C3_EveryExceptionSuggestsRegenerate ==
  \A r \in Reqs :
    /\ outcome[r] # "threw"
    /\ (pc[r] = "Done" /\ Raised(r)) =>
         /\ outcome[r] = "returned"
         /\ Feedback(r).status = "error"
         /\ HasAction(Feedback(r), "regenerate")

\* C3 as amended: no exception reaches the caller and every exception ends the
\* request with an error feedback; it suggests 'regenerate' unless the
\* exception was raised inside parseDesignIntent, whose own catch block
\* answers "Failed to parse design intent" with no suggested action.
C3_ExceptionsContained ==
  \A r \in Reqs :
    /\ outcome[r] # "threw"
    /\ (pc[r] = "Done" /\ Raised(r)) =>
         /\ outcome[r] = "returned"
         /\ Feedback(r).status = "error"
         /\ IF fault[r] # None /\ fault[r][1].stage = "Parse"
            THEN /\ Feedback(r).message = "Failed to parse design intent"
                 /\ Feedback(r).suggestedActions = None
            ELSE HasAction(Feedback(r), "regenerate")

\* an exception inside parseDesignIntent has ended a request
C3_Witness ==
  \E r \in Reqs :
    /\ pc[r] = "Done"
    /\ fault[r] # None
    /\ fault[r][1].stage = "Parse"
    /\ Feedback(r).status = "error"

\* C4: a finished request has returned a payload with a feedback; the optional
\* fields are the request's own values and nest (executionResult => script =>
\* structuredDesign); a clarification carries the feedback alone; the
\* unsafe-script outcome carries structuredDesign and script, no executionResult.
C4_PayloadShape ==
  \A r \in Reqs :
    /\ pc[r] = "Done" => outcome[r] = "returned" /\ payload[r] # None
    /\ outcome[r] = "returned" =>
         LET p == payload[r][1]
         IN /\ p.feedback.status \in {"success", "error", "clarification"}
            /\ p.executionResult # None => p.script # None
            /\ p.script # None => p.structuredDesign # None
            /\ p.structuredDesign # None => p.structuredDesign = parsedResult[r]
            /\ p.script # None => p.script = script[r]
            /\ p.executionResult # None => p.executionResult = executionResult[r]
            /\ p.feedback.status = "clarification" =>
                 /\ p.structuredDesign = None
                 /\ p.script = None
                 /\ p.executionResult = None
            /\ p.feedback.message = "Generated code contains unsafe operations." =>
                 /\ p.structuredDesign # None
                 /\ p.script # None
                 /\ p.executionResult = None

\* a request has run the whole pipeline and returned all four fields
C4_Witness ==
  \E r \in Reqs :
    /\ outcome[r] = "returned"
    /\ payload[r][1].executionResult # None
    /\ payload[r][1].script # None
    /\ payload[r][1].structuredDesign # None

\* the keyword groups parseDesignIntent tests
ParserKeywords == {"cube", "box", "sphere", "cylinder"}
\* the keywords the gate tests
GateKeywords == ParserKeywords \cup {"cone", "torus"}

LacksKeyword(prompt, keywords) ==
  ~ \E k \in keywords : Includes(ToLowerCase(prompt), k)
LacksDigit(prompt) == ~ \E i \in 1..Len(prompt) : IsDigit(CharAt(prompt, i))

ExpectedQuestions(prompt, keywords) ==
  (IF LacksKeyword(prompt, keywords) THEN {ShapeQuestion} ELSE {})
  \cup (IF LacksDigit(prompt) THEN {DimensionQuestion} ELSE {})

\* request r ran to its end with no exception raised
RanClean(r) == pc[r] = "Done" /\ outcome[r] = "returned" /\ ~Raised(r)

\* C5 as stated, a recognized shape keyword being one parseDesignIntent
\* recognizes: a prompt shorter than 5, without digit or without recognized
\* keyword gets a clarification whose questions are exactly the shape question
\* iff the keyword is missing plus the dimension question iff a digit is missing.
C5_QuestionsForRecognizedKeywords ==
  \A r \in Reqs :
    RanClean(r) =>
      LET prompt == intent[r][1]
      IN (Len(prompt) < 5 \/ LacksDigit(prompt) \/ LacksKeyword(prompt, ParserKeywords)) =>
           /\ Feedback(r).status = "clarification"
           /\ ActionTexts(Feedback(r)) = ExpectedQuestions(prompt, ParserKeywords)

\* C5 as amended: the same with the six keywords of the gate (cube, box, sphere,
\* cylinder, cone, torus); a prompt of length >= 5 with a digit whose only
\* keywords are cone or torus also gets a clarification, with the parser's
\* single action 'Specify a primitive shape'.
C5_QuestionsForGateKeywords ==
  \A r \in Reqs :
    RanClean(r) =>
      LET prompt == intent[r][1]
      IN /\ (Len(prompt) < 5 \/ LacksDigit(prompt) \/ LacksKeyword(prompt, GateKeywords)) =>
              /\ Feedback(r).status = "clarification"
              /\ ActionTypes(Feedback(r)) \in Seq({"clarify"})
              /\ ActionTexts(Feedback(r)) = ExpectedQuestions(prompt, GateKeywords)
         /\ (Len(prompt) >= 5 /\ ~LacksDigit(prompt) /\ ~LacksKeyword(prompt, GateKeywords)
               /\ LacksKeyword(prompt, ParserKeywords)) =>
              /\ Feedback(r).status = "clarification"
              /\ ActionTypes(Feedback(r)) = <<"clarify">>
              /\ ActionTexts(Feedback(r)) = {"Specify a primitive shape"}

\* a prompt lacking keyword and digit has been answered with both questions
C5_Witness ==
  \E r \in Reqs :
    /\ RanClean(r)
    /\ Feedback(r).status = "clarification"
    /\ ActionTexts(Feedback(r)) = {ShapeQuestion, DimensionQuestion}

\* C6: at most one script submission is in flight on the engine connection.
C6_OneSubmissionInFlight ==
  Cardinality({r \in Reqs : exec[r].pc = "InFlight"}) <= 1

KnownEngineTexts == {"TopoDS_Shape is null", "out of bounds"}
IsKnownEngineText(m) == \E k \in KnownEngineTexts : Includes(m, k)

\* C7: the detail text of the feedback for a failed execution is
\* formatErrorMessage of the engine's error message, so no known engine text
\* reaches the caller unrewritten.
C7_EngineErrorsFormatted ==
  \A r \in Reqs :
    (/\ pc[r] = "Done"
     /\ outcome[r] = "returned"
     /\ payload[r][1].executionResult # None
     /\ ~payload[r][1].executionResult[1].success
     /\ payload[r][1].executionResult[1].errorMessage \notin {None, Some("")}) =>
      /\ Feedback(r).details =
           Some(formatErrorMessage(payload[r][1].executionResult[1].errorMessage[1]))
      /\ ~IsKnownEngineText(Feedback(r).details[1])

\* C2: executeScript given a script that fails validateScriptSafety (in
\* particular one holding "import os" in any letter case) returns the fixed
\* failure result and hands nothing to the engine.
C2_UnsafeScriptNeverDispatched ==
  \A c \in Reqs :
    (/\ exec[c].script # None
     /\ \/ ~validateScriptSafety(exec[c].script[1])
        \/ Includes(ToLowerCase(exec[c].script[1].code), "import os")) =>
      /\ exec[c].pc = "Returned"
      /\ exec[c].submitted = 0
      /\ exec[c].result # None
      /\ ~exec[c].result[1].success
      /\ exec[c].result[1].errorMessage =
           Some("Script contains potentially unsafe operations and cannot be executed.")
      /\ exec[c].result[1].warnings = Some(<<"Potentially unsafe code detected.">>)
      /\ exec[c].result[1].objectIds = None
      /\ exec[c].result[1].renderUrl = None

\* a direct call with an upper-case "IMPORT OS" script has returned the failure
C2_Witness ==
  /\ pc[1] = "Idle"
  /\ exec[1].script # None
  /\ Includes(exec[1].script[1].code, "IMPORT OS")
  /\ exec[1].pc = "Returned"
  /\ ~exec[1].result[1].success

\* C8: generateUserFeedback maps success without warnings to success/[accept],
\* success with warnings to success/[accept, modify], and failure to
\* error/[regenerate, modify, clarify], whatever the message and warnings.
C8_FeedbackMapping ==
  call.fn = "generateUserFeedback" =>
    LET result == call.arg
        fb == call.out
        warned == result.warnings # None /\ Len(result.warnings[1]) >= 1
    IN /\ (result.success /\ ~warned) =>
            fb.status = "success" /\ ActionTypes(fb) = <<"accept">>
       /\ (result.success /\ warned) =>
            fb.status = "success" /\ ActionTypes(fb) = <<"accept", "modify">>
       /\ ~result.success =>
            /\ fb.status = "error"
            /\ ActionTypes(fb) = <<"regenerate", "modify", "clarify">>

\* a successful result with warnings has been mapped
C8_Witness ==
  /\ call.fn = "generateUserFeedback"
  /\ call.arg.success
  /\ call.arg.warnings # None
  /\ Len(call.arg.warnings[1]) = 2
  /\ ActionTypes(call.out) = <<"accept", "modify">>

\* C9: formatErrorMessage applied to its own output changes nothing; a message
\* without known engine text is returned unchanged; a rewritten message holds
\* no known engine text.
C9_FormatIdempotent ==
  call.fn = "formatErrorMessage" =>
    /\ formatErrorMessage(call.out) = call.out
    /\ ~IsKnownEngineText(call.arg) => call.out = call.arg
    /\ IsKnownEngineText(call.arg) =>
         call.out # call.arg /\ ~IsKnownEngineText(call.out)

\* a message holding "out of bounds" has been rewritten
C9_Witness ==
  /\ call.fn = "formatErrorMessage"
  /\ call.arg = "out of bounds"
  /\ call.out = OutOfRangeText

RECURSIVE LineEnd(_, _)
\* the position of the first newline at or after i, or Len(code) + 1
LineEnd(code, i) ==
  IF i <= Len(code) /\ CharAt(code, i) # "\n" THEN LineEnd(code, i + 1) ELSE i

RECURSIVE SplitFrom(_, _)
\* the lines of code from position start on
SplitFrom(code, start) ==
  LET stop == LineEnd(code, start)
  IN IF stop > Len(code) THEN <<SubSeq(code, start, Len(code))>>
     ELSE <<SubSeq(code, start, stop - 1)>> \o SplitFrom(code, stop + 1)

\* code.split('\n')
SplitLines(code) == SplitFrom(code, 1)

\* the positions of the lines that satisfy P, ascending
Positions(lines, P(_)) ==
  SelectSeq([i \in 1..Len(lines) |-> i], LAMBDA i : P(lines[i]))

IsCreationStatement(line) == Includes(line, " = Part.make")
IsOperationStatement(line) ==
  \E i \in 1..Len(line) :
    /\ CharAt(line, i) = "."
    /\ \E m \in {".fuse(", ".cut(", ".common(", ".makeFillet(", ".makeChamfer("} :
         MatchesAt(line, i, m)
IsDocumentStatement(line) == line = "doc = App.newDocument()"
IsRecomputeStatement(line) == line = "doc.recompute()"

MakerOf(type) ==
  CASE type = "cube" -> "Box" [] type = "sphere" -> "Sphere"
    [] type = "cylinder" -> "Cylinder" [] type = "cone" -> "Cone"
    [] type = "torus" -> "Torus"
MethodOf(type) ==
  CASE type = "union" -> "fuse" [] type = "difference" -> "cut"
    [] type = "intersection" -> "common" [] type = "fillet" -> "makeFillet"
    [] type = "chamfer" -> "makeChamfer"

\* the statements at the given positions of lines mirror the design
StatementsMirror(design, lines, created, applied, docAt, recAt) ==
  /\ Len(created) = Len(design.primitives)
  /\ \A k \in 1..Len(created) :
       MatchesAt(lines[created[k]], 1,
                 design.primitives[k].id \o " = Part.make"
                   \o MakerOf(design.primitives[k].type) \o "(")
  /\ Len(applied) = Len(design.operations)
  /\ \A k \in 1..Len(applied) :
       LET op == design.operations[k]
       IN MatchesAt(lines[applied[k]], 1,
                    "result_" \o op.type \o "_" \o Join(op.targetIds, "_")
                      \o " = "
                      \o (IF Len(op.targetIds) = 0 THEN "undefined"
                          ELSE op.targetIds[1])
                      \o "." \o MethodOf(op.type) \o "(")
  /\ Len(docAt) = 1
  /\ Len(recAt) = 1
  /\ \A k \in 1..Len(created) : docAt[1] < created[k] /\ created[k] < recAt[1]
  /\ \A k \in 1..Len(applied) : docAt[1] < applied[k] /\ applied[k] < recAt[1]
  /\ \A k \in 1..Len(created), m \in 1..Len(applied) : created[k] < applied[m]

ScriptMirrors(design, lines) ==
  StatementsMirror(design, lines,
                   Positions(lines, IsCreationStatement),
                   Positions(lines, IsOperationStatement),
                   Positions(lines, IsDocumentStatement),
                   Positions(lines, IsRecomputeStatement))

\* C10: the script of generateFreeCADCode holds one creation statement per
\* primitive and one operation statement per operation, each in the design's
\* order, all creations before all operations, and all of them after the
\* document-creation statement and before the recompute statement.
C10_StatementsMirrorDesign ==
  call.fn = "generateFreeCADCode" =>
    ScriptMirrors(call.arg, SplitLines(call.out.code))

\* a design of two primitives and two operations has been compiled
C10_Witness ==
  /\ call.fn = "generateFreeCADCode"
  /\ Len(call.arg.primitives) = 2
  /\ Len(call.arg.operations) = 2
  /\ call.arg.primitives[1].type # call.arg.primitives[2].type
  /\ call.arg.operations[1].type # call.arg.operations[2].type

(***************************************************************************)
(* generatePrimitiveCode and generateOperationCode, statement by statement. *)
(***************************************************************************)
IsRotateStatement(line) == Includes(line, ".rotate(")
IsTranslateStatement(line) == Includes(line, ".translate(")
IsBindingStatement(line) == MatchesAt(line, 1, "shape_obj = doc.addObject(")

\* the rotate statement about the given axis by the given angle
RotateText(id, axis, angle) ==
  id \o ".rotate(Base.Vector(0,0,0), Base.Vector(" \o axis \o "), "
     \o NumberToString(angle) \o ")"

\* the statements of one primitive rotate about X, Y, Z in that order, after
\* the translate statement and before the binding statement
RotationsInOrder(primitive, lines) ==
  LET rotated == Positions(lines, IsRotateStatement)
      moved == Positions(lines, IsTranslateStatement)
      bound == Positions(lines, IsBindingStatement)
  IN /\ Len(bound) = 1
     /\ Len(moved) = (IF primitive.position # None THEN 1 ELSE 0)
     /\ IF primitive.rotation = None THEN Len(rotated) = 0
        ELSE LET rot == primitive.rotation[1]
             IN /\ Len(rotated) = 3
                /\ lines[rotated[1]] = RotateText(primitive.id, "1,0,0", rot.x)
                /\ lines[rotated[2]] = RotateText(primitive.id, "0,1,0", rot.y)
                /\ lines[rotated[3]] = RotateText(primitive.id, "0,0,1", rot.z)
                /\ rotated[2] = rotated[1] + 1
                /\ rotated[3] = rotated[2] + 1
                /\ \A k \in 1..Len(moved) : moved[k] < rotated[1]
                /\ rotated[3] < bound[1]

\* C11: a primitive with a Rotation gets exactly three rotate statements about
\* the origin, X then Y then Z with rot.x, rot.y, rot.z, after the translate
\* statement (if any) and before the statement binding the shape into the
\* document; a primitive without Rotation gets none.
C11_RotationsXThenYThenZ ==
  call.fn = "generateFreeCADCode" =>
    \A k \in 1..Len(call.arg.primitives) :
      RotationsInOrder(call.arg.primitives[k],
                       generatePrimitiveCode(call.arg.primitives[k]))

\* a primitive with a Position and a Rotation of three different angles has
\* been compiled
C11_Witness ==
  /\ call.fn = "generateFreeCADCode"
  /\ \E k \in 1..Len(call.arg.primitives) :
       LET p == call.arg.primitives[k]
       IN /\ p.position # None
          /\ p.rotation # None
          /\ p.rotation[1].x # p.rotation[1].z
          /\ Includes(call.out.code,
                      RotateText(p.id, "1,0,0", p.rotation[1].x) \o "\n"
                        \o RotateText(p.id, "0,1,0", p.rotation[1].y) \o "\n"
                        \o RotateText(p.id, "0,0,1", p.rotation[1].z))

IsBooleanOperation(operation) ==
  operation.type \in {"union", "difference", "intersection"}

\* t1, ..., tn separated by ", "
RECURSIVE ArgumentGroup(_, _)
ArgumentGroup(targetIds, from) ==
  IF from > Len(targetIds) THEN ""
  ELSE IF from = Len(targetIds) THEN targetIds[from]
  ELSE targetIds[from] \o ", " \o ArgumentGroup(targetIds, from + 1)

\* the number of positions of line at which text occurs
Occurrences(line, text) ==
  Cardinality({i \in 1..Len(line) : MatchesAt(line, i, text)})

\* C12: a union, difference or intersection of [t0, t1, ..., tn], n >= 1, is
\* emitted as exactly one combinator call, on t0, with t1..tn in their order
\* as its argument group: one statement, one call, never a chain.
C12_OneGroupedCombinatorCall ==
  call.fn = "generateFreeCADCode" =>
    \A k \in 1..Len(call.arg.operations) :
      LET op == call.arg.operations[k]
          lines == generateOperationCode(op)
          calls == Positions(lines, IsOperationStatement)
          method == "." \o MethodOf(op.type) \o "("
      IN (IsBooleanOperation(op) /\ Len(op.targetIds) >= 2) =>
           /\ Len(calls) = 1
           /\ lines[calls[1]] =
                "result_" \o op.type \o "_" \o Join(op.targetIds, "_")
                  \o " = " \o op.targetIds[1] \o method
                  \o ArgumentGroup(op.targetIds, 2) \o ")"
           /\ Occurrences(lines[calls[1]], method) = 1
           /\ \A m \in {".fuse(", ".cut(", ".common("} :
                Occurrences(lines[calls[1]], m) = (IF m = method THEN 1 ELSE 0)

\* a union of three targets has been compiled into one call on the first
C12_Witness ==
  /\ call.fn = "generateFreeCADCode"
  /\ \E k \in 1..Len(call.arg.operations) :
       /\ call.arg.operations[k].type = "union"
       /\ Len(call.arg.operations[k].targetIds) = 3
       /\ Includes(call.out.code, "shape_a.fuse(shape_b, shape_c)")

(***************************************************************************)
(* validateScriptSafety.                                                    *)
(***************************************************************************)
Denylist ==
  {"import os", "import sys", "import subprocess", "exec(", "eval(", "execfile(",
   "__import__", "open(", "file(", "system(", "popen("}

\* pattern occurs in code at some position, letter case of code ignored
OccursIgnoringCase(code, pattern) ==
  \E i \in 1..(Len(code) - Len(pattern) + 1) :
    \A j \in 1..Len(pattern) :
      LET c == CharAt(code, i + j - 1)
      IN CharAt(pattern, j) = (IF c \in UpperSet THEN LowerOf[c] ELSE c)

\* C13: validateScriptSafety returns false iff the code, letter case ignored,
\* holds a denylist pattern anywhere (comments and string literals included),
\* whatever the safeToExecute flag and the imports list are.
C13_SafeIffNoDenylistPattern ==
  call.fn = "validateScriptSafety" =>
    /\ call.out = FALSE <=> \E p \in Denylist : OccursIgnoringCase(call.arg.code, p)
    /\ validateScriptSafety([call.arg EXCEPT !.safeToExecute = ~@]) = call.out
    /\ validateScriptSafety([call.arg EXCEPT !.imports = <<"import sys">>]) = call.out
    /\ validateScriptSafety([call.arg EXCEPT !.imports = <<>>]) = call.out

\* a script marked safeToExecute with "EVAL(" inside a comment has been rejected
C13_Witness ==
  /\ call.fn = "validateScriptSafety"
  /\ call.arg.code = "# EVAL("
  /\ call.arg.safeToExecute
  /\ call.arg.imports = <<>>
  /\ call.out = FALSE

(***************************************************************************)
(* parseDesignIntent.                                                       *)
(***************************************************************************)
\* pattern stands in text at position i, letter case of text ignored
AtIgnoringCase(text, i, pattern) ==
  /\ i >= 1
  /\ i + Len(pattern) - 1 <= Len(text)
  /\ \A j \in 1..Len(pattern) :
       LET c == CharAt(text, i + j - 1)
       IN CharAt(pattern, j) = (IF c \in UpperSet THEN LowerOf[c] ELSE c)

Mentions(prompt, keyword) ==
  \E i \in 1..Len(prompt) : AtIgnoringCase(prompt, i, keyword)

\* the keyword group that wins: cube/box, then sphere, then cylinder
ExpectedType(prompt) ==
  IF Mentions(prompt, "cube") \/ Mentions(prompt, "box") THEN "cube"
  ELSE IF Mentions(prompt, "sphere") THEN "sphere"
  ELSE IF Mentions(prompt, "cylinder") THEN "cylinder"
  ELSE "none"

DigitAt(prompt, i) == i >= 1 /\ i <= Len(prompt) /\ CharAt(prompt, i) \in DigitSet

\* the positions of the first run of digits: <<first, last>>, or <<>>
FirstDigitRun(prompt) ==
  IF \A i \in 1..Len(prompt) : ~DigitAt(prompt, i) THEN <<>>
  ELSE LET first == CHOOSE i \in 1..Len(prompt) :
                      DigitAt(prompt, i) /\ \A j \in 1..(i - 1) : ~DigitAt(prompt, j)
           last == CHOOSE i \in first..Len(prompt) :
                     /\ \A j \in first..i : DigitAt(prompt, j)
                     /\ ~DigitAt(prompt, i + 1)
       IN <<first, last>>

\* the decimal value of prompt[lo..hi]
RECURSIVE DecimalValue(_, _, _)
DecimalValue(prompt, lo, hi) ==
  IF hi < lo THEN 0
  ELSE 10 * DecimalValue(prompt, lo, hi - 1)
         + (CHOOSE d \in 0..9 : DigitChars[d + 1] = CharAt(prompt, hi))

ExpectedSize(prompt) ==
  LET run == FirstDigitRun(prompt)
  IN IF run = <<>> THEN 10 ELSE DecimalValue(prompt, run[1], run[2])

\* the unit token that follows the first run of digits and optional white space
ExpectedUnit(prompt) ==
  LET run == FirstDigitRun(prompt)
  IN IF run = <<>> THEN "mm"
     ELSE LET at == CHOOSE i \in (run[2] + 1)..(Len(prompt) + 1) :
                      /\ \A j \in (run[2] + 1)..(i - 1) : IsSpace(CharAt(prompt, j))
                      /\ i <= Len(prompt) => ~IsSpace(CharAt(prompt, i))
          IN IF AtIgnoringCase(prompt, at, "mm") THEN "mm"
             ELSE IF AtIgnoringCase(prompt, at, "cm") THEN "cm"
             ELSE IF AtIgnoringCase(prompt, at, "m") THEN "m"
             ELSE IF AtIgnoringCase(prompt, at, "inch") THEN "inch"
             ELSE IF AtIgnoringCase(prompt, at, "in") THEN "in"
             ELSE "mm"

ExpectedParameters(type, size, unit) ==
  LET whole == [n |-> size, half |-> FALSE]
      halved == [n |-> size \div 2, half |-> size % 2 = 1]
  IN CASE type = "cube" ->
            [length |-> whole, width |-> whole, height |-> whole, unit |-> unit]
       [] type = "sphere" -> [radius |-> halved, unit |-> unit]
       [] type = "cylinder" -> [radius |-> halved, height |-> whole, unit |-> unit]

\* C14: a StructuredDesign returned by parseDesignIntent holds one primitive and
\* no operation; its type is the first of the groups cube/box, sphere, cylinder
\* found in the lower-cased prompt; size is the first run of digits (10 if
\* none), unit the unit token following it (mm if none); cube has
\* length = width = height = size, sphere radius = size/2, cylinder
\* radius = size/2 and height = size. "Create a cube with 10mm sides" gives one
\* cube of 10, 10, 10 mm.
C14_ParsedDesignFollowsPrompt ==
  call.fn = "parseDesignIntent" =>
    /\ "status" \in DOMAIN call.out <=> ExpectedType(call.arg) = "none"
    /\ "status" \notin DOMAIN call.out =>
         /\ Len(call.out.primitives) = 1
         /\ call.out.operations = <<>>
         /\ call.out.primitives[1].type = ExpectedType(call.arg)
         /\ call.out.primitives[1].parameters =
              ExpectedParameters(ExpectedType(call.arg), ExpectedSize(call.arg),
                                 ExpectedUnit(call.arg))
    /\ call.arg = "Create a cube with 10mm sides" =>
         /\ Len(call.out.primitives) = 1
         /\ call.out.primitives[1].type = "cube"
         /\ call.out.primitives[1].parameters =
              [length |-> [n |-> 10, half |-> FALSE],
               width |-> [n |-> 10, half |-> FALSE],
               height |-> [n |-> 10, half |-> FALSE], unit |-> "mm"]

\* a prompt with a capitalised keyword and an odd size has been parsed into a
\* sphere of radius 3.5
C14_Witness ==
  /\ call.fn = "parseDesignIntent"
  /\ call.arg = "Sphere  7"
  /\ call.out.primitives[1].type = "sphere"
  /\ call.out.primitives[1].parameters.radius = [n |-> 3, half |-> TRUE]

(***************************************************************************)
(* The order of the stages of one request.                                  *)
(***************************************************************************)
\* the stage of the pipeline a position of processDesignIntent belongs to
StageOf(position) ==
  CASE position = "Idle" -> "NotStarted"
    [] position \in {"Gate", "Parse"} -> "Interpreting"
    [] position \in {"Dispatching", "Awaiting"} -> "Dispatching"
    [] OTHER -> position

StageRank(stage) ==
  CASE stage = "NotStarted" -> 0
    [] stage = "Interpreting" -> 1
    [] stage = "Compiling" -> 2
    [] stage = "Validating" -> 3
    [] stage = "Dispatching" -> 4
    [] stage = "Synthesizing" -> 5
    [] stage = "Done" -> 6

\* one step of request r: the stage stays, or the next stage is entered, or
\* the request ends early for one of the three reasons; executeScript, once
\* called, is not called again
StepKeepsOrder(r) ==
  LET from == StageOf(pc[r])
      to == StageOf(pc'[r])
      early == to = "Done" /\ from # "Synthesizing"
      fb == payload'[r][1].feedback
  IN /\ from # to => (StageRank(to) = StageRank(from) + 1 \/ to = "Done")
     /\ (from # to /\ early) =>
          /\ outcome'[r] = "returned"
          /\ \/ from = "Interpreting" /\ fb.status = "clarification"
             \/ from = "Validating"
                  /\ fb.message = "Generated code contains unsafe operations."
             \/ fault'[r] # None /\ fb.status = "error"
     /\ exec[r].script # None =>
          /\ exec'[r].script = exec[r].script
          /\ exec'[r].submitted = exec[r].submitted
     /\ exec'[r].submitted <= 1

\* C15: within one request the stages are entered only in the order
\* Interpreting, Compiling, Validating, Dispatching, Synthesizing, Done, none
\* twice or after a later one; the only early exits lead to Done
\* (clarification at Interpreting, unsafe script at Validating, caught
\* exception); executeScript is called at most once, also when it fails.
C15_StagesStrictlyForward == [][\A r \in Reqs : StepKeepsOrder(r)]_vars

\* a request has ended after a failed execution, executeScript called once
C15_Witness ==
  /\ pc[1] = "Done"
  /\ executionResult[1] # None
  /\ ~executionResult[1][1].success
  /\ exec[1].submitted = 1
  /\ HasAction(Feedback(1), "regenerate")

(***************************************************************************)
(* Termination.                                                             *)
(***************************************************************************)
\* C16: the engine's pending reply being delivered, every request that was
\* started reaches Done having returned a payload with a feedback, and what
\* it returned is never replaced: exactly one feedback per request.
C16_EveryRequestReturnsOnce ==
  /\ (pc[1] # "Idle") ~>
       (pc[1] = "Done" /\ outcome[1] = "returned" /\ payload[1] # None)
  /\ [][pc[1] = "Done" => (pc'[1] = "Done" /\ payload'[1] = payload[1])]_vars

\* a request has reached Done after the engine threw
C16_Witness ==
  /\ pc[1] = "Done"
  /\ outcome[1] = "returned"
  /\ exec[1].thrown # None
  /\ Feedback(1).status = "error"

ConeOrTorusOnly(prompt) ==
  /\ Mentions(prompt, "cone") \/ Mentions(prompt, "torus")
  /\ \A keyword \in {"cube", "box", "sphere", "cylinder"} : ~Mentions(prompt, keyword)

\* C18: a request whose prompt names cone or torus and none of cube, box,
\* sphere, cylinder, with or without a digit, never gets a StructuredDesign or
\* a script and never calls the Broker; run without exception, it ends in
\* a clarification feedback carrying the feedback alone.
C18_ConeAndTorusFallToClarification ==
  \A r \in Reqs :
    (intent[r] # None /\ ConeOrTorusOnly(intent[r][1])) =>
      /\ parsedResult[r] # None => "status" \in DOMAIN parsedResult[r][1]
      /\ script[r] = None
      /\ exec[r] = ExecIdle
      /\ RanClean(r) =>
           /\ Feedback(r).status = "clarification"
           /\ payload[r][1].structuredDesign = None
           /\ payload[r][1].script = None
           /\ payload[r][1].executionResult = None

\* a cone prompt with a digit passed the gate and was answered by the parser
C18_Witness ==
  \E r \in Reqs :
    /\ RanClean(r)
    /\ Mentions(intent[r][1], "cone")
    /\ ~LacksDigit(intent[r][1])
    /\ ~needsClarification(intent[r][1])
    /\ Feedback(r).message = "Could not determine what shape to create."

(***************************************************************************)
(* The ids of the primitives of one session.                                *)
(***************************************************************************)
\* the ids of the primitives the Interpreter created for request r
CreatedIds(r) ==
  IF parsedResult[r] = None \/ "status" \in DOMAIN parsedResult[r][1] THEN {}
  ELSE {parsedResult[r][1].primitives[k].id :
          k \in 1..Len(parsedResult[r][1].primitives)}

\* C19: no two primitives created in one session, by the same or by different
\* requests, have the same id.
C19_PrimitiveIdsNeverRepeat ==
  /\ \A r \in Reqs :
       parsedResult[r] # None /\ "status" \notin DOMAIN parsedResult[r][1] =>
         Cardinality(CreatedIds(r)) = Len(parsedResult[r][1].primitives)
  /\ \A r1, r2 \in Reqs : r1 # r2 => CreatedIds(r1) \cap CreatedIds(r2) = {}

(***************************************************************************)
(* Edge operations: fillet and chamfer.                                     *)
(***************************************************************************)
IsEdgeOperation(operation) == operation.type \in {"fillet", "chamfer"}

\* the parameter an edge operation reads
EdgeParameter(type) == IF type = "fillet" THEN "radius" ELSE "distance"

\* the numeric argument the specification asks for: the given value, 0
\* included, and 1.0 only when none is given
GivenOrOne(operation) ==
  LET key == EdgeParameter(operation.type)
  IN IF operation.parameters # None /\ key \in DOMAIN operation.parameters[1]
     THEN NumberToString(operation.parameters[1][key])
     ELSE NumberToString(Whole(1))

\* the edge call on targetIds[0] alone with the given numeric argument
EdgeCallOnFirst(operation, argument) ==
  "result_" \o operation.type \o "_" \o Join(operation.targetIds, "_")
    \o " = " \o operation.targetIds[1] \o "." \o MethodOf(operation.type)
    \o "(" \o argument \o ", " \o operation.targetIds[1] \o ".Edges)"

\* C20: the statement of a fillet or chamfer is an edge call on targetIds[0]
\* alone, no later target appearing in the call, and its numeric argument is
\* the given radius or distance, the value 0 included, and 1.0 only when the
\* parameter is not given.
C20_EdgeCallUsesGivenValue ==
  call.fn = "generateFreeCADCode" =>
    \A k \in 1..Len(call.arg.operations) :
      LET op == call.arg.operations[k]
          lines == generateOperationCode(op)
          calls == Positions(lines, IsOperationStatement)
      IN (IsEdgeOperation(op) /\ Len(op.targetIds) >= 1) =>
           /\ Len(calls) = 1
           /\ lines[calls[1]] = EdgeCallOnFirst(op, GivenOrOne(op))
           /\ Includes(call.out.code, EdgeCallOnFirst(op, GivenOrOne(op)))

(***************************************************************************)
(* The safety of the scripts the pipeline compiles itself.                  *)
(***************************************************************************)
\* C21: the script compiled from a prompt that passed the gate and was parsed
\* into a design passes validateScriptSafety, whatever characters the prompt
\* holds: the save-path hint made of the design name never brings in a
\* denylisted pattern, and the unsafe-script branch is never taken.
C21_CompiledScriptsPassValidation ==
  \A r \in Reqs :
    script[r] # None =>
      /\ validateScriptSafety(script[r][1])
      /\ safe[r] # Some(FALSE)
      /\ ~ReturnedUnsafe(r)

(***************************************************************************)
(* The questions of a clarification.                                        *)
(***************************************************************************)
\* C22: every clarification feedback processDesignIntent returns carries at
\* least one suggested action of type clarify; whenever needsClarification
\* holds of the intent, generateClarificationQuestions gives a non-empty list,
\* prompts shorter than 5 with a shape keyword and a digit included.
C22_ClarificationAlwaysAsks ==
  \A r \in Reqs :
    /\ (intent[r] # None /\ needsClarification(intent[r][1])) =>
         Len(generateClarificationQuestions(intent[r][1])) >= 1
    /\ (pc[r] = "Done" /\ outcome[r] = "returned"
          /\ Feedback(r).status = "clarification") =>
         HasAction(Feedback(r), "clarify")

====
